---- MODULE Spec2Model ----
(***************************************************************************)
(* Model of tools/aconfig/src/codegen_java.rs: generate_java_code, which   *)
(* turns a flag cache into the three generated Java files.                 *)
(*                                                                         *)
(* Strings are sequences of Unicode code points; byte vectors are          *)
(* sequences of integers in 0..255.                                        *)
(***************************************************************************)
EXTENDS Integers, Sequences, FiniteSets, TLC

(* ---- bounds of the model ---- *)
MaxFlags == 2
MaxCalls == 2

(* ---- characters used by the code ---- *)
Dot == 46

(* "true" and "false" *)
TrueText == <<116, 114, 117, 101>>
FalseText == <<102, 97, 108, 115, 101>>

(* "Flags.java", "FeatureFlagsImpl.java", "FeatureFlags.java" *)
Flags_java == <<70, 108, 97, 103, 115, 46, 106, 97, 118, 97>>
FeatureFlagsImpl_java ==
    <<70, 101, 97, 116, 117, 114, 101, 70, 108, 97, 103, 115, 73, 109, 112, 108, 46, 106, 97, 118, 97>>
FeatureFlags_java ==
    <<70, 101, 97, 116, 117, 114, 101, 70, 108, 97, 103, 115, 46, 106, 97, 118, 97>>

java_files_swapped == <<Flags_java, FeatureFlags_java, FeatureFlagsImpl_java>>
java_files == <<Flags_java, FeatureFlagsImpl_java, FeatureFlags_java>>

(* ---- the inputs: caches that passed validation at creation time ---- *)
(* "d_r1" and "e" ++ U+00E9 ++ "Z" *)
Names == { <<100, 95, 114, 49>>, <<101, 233, 90>> }
(* "ns" *)
Namespaces == { <<110, 115>> }
(* "com.ex" and "p" *)
Packages == { <<99, 111, 109, 46, 101, 120>>, <<112>> }
FlagStates == {"Enabled", "Disabled"}
Permissions == {"ReadOnly", "ReadWrite"}
Items == [namespace : Namespaces, name : Names, state : FlagStates, permission : Permissions]
ItemSeqs == UNION { [1..n -> Items] : n \in 0..MaxFlags }
Caches == [package : Packages, items : ItemSeqs]

(* "p" with the single flag d_r1, Enabled, ReadWrite *)
OtherCache ==
    [package |-> <<112>>,
     items |-> <<[namespace |-> <<110, 115>>, name |-> <<100, 95, 114, 49>>,
                  state |-> "Enabled", permission |-> "ReadWrite"]>>]

(* the templates compiled into the build: each is well formed, malformed,  *)
(* or well formed but referring to a field the context does not have       *)
TemplateKinds == {"ok", "parse_error", "render_error"}
TemplateBuilds == [{Flags_java, FeatureFlagsImpl_java, FeatureFlags_java} -> TemplateKinds]

(* ---- pure helpers ---- *)
RECURSIVE split(_, _)
split_nosplit(s, sep) == <<s>>
split(s, sep) ==
    IF \E i \in 1..Len(s) : s[i] = sep
    THEN LET i == CHOOSE k \in 1..Len(s) : s[k] = sep /\ \A j \in 1..(k - 1) : s[j] # sep
         IN <<SubSeq(s, 1, i - 1)>> \o split(SubSeq(s, i + 1, Len(s)), sep)
    ELSE <<s>>

to_uppercase_unicode(s) ==
    [i \in 1..Len(s) |->
        IF (s[i] >= 97 /\ s[i] <= 122) \/ (s[i] >= 224 /\ s[i] <= 254 /\ s[i] # 247)
        THEN s[i] - 32 ELSE s[i]]
to_ascii_uppercase(s) ==
    [i \in 1..Len(s) |-> IF s[i] >= 97 /\ s[i] <= 122 THEN s[i] - 32 ELSE s[i]]

(* String -> Vec<u8>: the UTF-8 encoding of the text *)
RECURSIVE into_bytes(_)
into_bytes(s) ==
    IF s = <<>> THEN <<>>
    ELSE LET c == Head(s)
             enc == IF c < 128 THEN <<c>>
                    ELSE IF c < 2048 THEN <<192 + (c \div 64), 128 + (c % 64)>>
                    ELSE <<224 + (c \div 4096), 128 + ((c \div 64) % 64), 128 + (c % 64)>>
         IN enc \o into_bytes(Tail(s))

(* codegen::create_device_config_ident: package ++ "." ++ name for         *)
(* well-formed identifiers (non-empty, letters, digits and underscore), an *)
(* error otherwise.  A cache only holds values that were checked when it   *)
(* was created, so the error, and the panic of expect(), is never taken    *)
(* for the caches of Init.                                                 *)
is_ident_char(c) ==
    \/ (c >= 97 /\ c <= 122)
    \/ (c >= 65 /\ c <= 90)
    \/ (c >= 48 /\ c <= 57)
    \/ c = 95
    \/ c >= 128
is_valid_name_ident(s) == s # <<>> /\ \A i \in 1..Len(s) : is_ident_char(s[i])
is_valid_package_ident(s) == \A i \in 1..Len(split(s, Dot)) : is_valid_name_ident(split(s, Dot)[i])
create_device_config_ident(package, flag_name) ==
    IF is_valid_package_ident(package) /\ is_valid_name_ident(flag_name)
    THEN [ok |-> TRUE, value |-> package \o <<Dot>> \o flag_name]
    ELSE [ok |-> FALSE, value |-> <<>>]

(* create_class_element; ok = FALSE is the panic of expect() *)
create_class_element_namespace(package, item) ==
    LET ident == create_device_config_ident(item.namespace, item.name)
    IN [ok |-> ident.ok,
        elem |-> [default_value |-> IF item.state = "Enabled" THEN TrueText ELSE FalseText,
                  device_config_namespace |-> item.namespace,
                  device_config_flag |-> ident.value,
                  flag_name_constant_suffix |-> to_ascii_uppercase(item.name),
                  is_read_write |-> item.permission = "ReadWrite",
                  method_name |-> item.name]]
create_class_element_inverted(package, item) ==
    LET ident == create_device_config_ident(package, item.name)
    IN [ok |-> ident.ok,
        elem |-> [default_value |-> IF item.state = "Disabled" THEN TrueText ELSE FalseText,
                  device_config_namespace |-> item.namespace,
                  device_config_flag |-> ident.value,
                  flag_name_constant_suffix |-> to_ascii_uppercase(item.name),
                  is_read_write |-> item.permission = "ReadWrite",
                  method_name |-> item.name]]
create_class_element(package, item) ==
    LET ident == create_device_config_ident(package, item.name)
    IN [ok |-> ident.ok,
        elem |-> [default_value |-> IF item.state = "Enabled" THEN TrueText ELSE FalseText,
                  device_config_namespace |-> item.namespace,
                  device_config_flag |-> ident.value,
                  flag_name_constant_suffix |-> to_ascii_uppercase(item.name),
                  is_read_write |-> item.permission = "ReadWrite",
                  method_name |-> item.name]]

(* class_elements.iter().any(|item| item.is_read_write) *)
any_is_read_write_all(elems) == \A i \in 1..Len(elems) : elems[i].is_read_write
any_is_read_write(elems) == \E i \in 1..Len(elems) : elems[i].is_read_write

(* ---- the templating engine (tinytemplate) and the three templates ---- *)
Token(t, v) == [t |-> t, v |-> v]

RECURSIVE Flatten(_)
Flatten(ss) == IF ss = <<>> THEN <<>> ELSE Head(ss) \o Flatten(Tail(ss))

Flags_template(context) ==
    <<Token("package", context.package_name)>>
    \o [i \in 1..Len(context.class_elements) |->
            Token("static_method", context.class_elements[i].method_name)]
    \o <<Token("feature_flags_instance", <<>>)>>

FeatureFlagsImpl_method(e) ==
    IF e.is_read_write
    THEN <<Token("override_method", e.method_name),
           Token("get_boolean_namespace", e.device_config_namespace),
           Token("get_boolean_flag", e.device_config_flag),
           Token("get_boolean_default", e.default_value)>>
    ELSE <<Token("override_method", e.method_name),
           Token("return", e.default_value)>>

FeatureFlagsImpl_template(context) ==
    <<Token("package", context.package_name)>>
    \o (IF context.is_read_write THEN <<Token("import_device_config", <<>>)>> ELSE <<>>)
    \o Flatten([i \in 1..Len(context.class_elements) |->
                    FeatureFlagsImpl_method(context.class_elements[i])])

FeatureFlags_template(context) ==
    <<Token("package", context.package_name)>>
    \o [i \in 1..Len(context.class_elements) |->
            Token("boolean_method", context.class_elements[i].method_name)]

template_text(file, context) ==
    IF file = Flags_java THEN Flags_template(context)
    ELSE IF file = FeatureFlagsImpl_java THEN FeatureFlagsImpl_template(context)
    ELSE FeatureFlags_template(context)

(* rendered text -> Vec<u8>, fragment by fragment *)
contents_of(text) == [i \in 1..Len(text) |-> Token(text[i].t, into_bytes(text[i].v))]

NoEngineError == [kind |-> "none", template |-> <<>>]
NoError == [engine |-> NoEngineError, context |-> <<>>]
NoContext == [package_name |-> <<>>, is_read_write |-> FALSE, class_elements |-> <<>>]

VARIABLES
    cache,          \* the Cache passed to generate_java_code
    other,          \* a second Cache the caller holds
    templates,      \* the template sources compiled into the build
    pc,             \* position inside generate_java_code
    calls,          \* number of completed calls
    package,        \* local: package
    idx,            \* local: position of cache.iter()
    class_elements, \* local: class_elements
    context,        \* local: context
    template,       \* local: names registered in the TinyTemplate
    path,           \* local: path
    files,          \* local: the OutputFiles collected so far
    result,         \* what the last completed call returned
    history         \* every (cache, outcome) pair returned so far

vars == <<cache, other, templates, pc, calls, package, idx, class_elements, context,
          template, path, files, result, history>>

NoResult == [status |-> "none", files |-> <<>>, error |-> NoError]

(* TinyTemplate::add_template *)
add_template(name) ==
    IF templates[name] = "parse_error"
    THEN [ok |-> FALSE, error |-> [kind |-> "ParseError", template |-> name]]
    ELSE [ok |-> TRUE, error |-> NoEngineError]

(* TinyTemplate::render *)
render(file, ctx) ==
    IF file \notin template
    THEN [ok |-> FALSE, text |-> <<>>, error |-> [kind |-> "UnknownTemplate", template |-> file]]
    ELSE IF templates[file] = "render_error"
    THEN [ok |-> FALSE, text |-> <<>>, error |-> [kind |-> "RenderError", template |-> file]]
    ELSE [ok |-> TRUE, text |-> template_text(file, ctx), error |-> NoEngineError]

(* the `?` operator: the engine's error becomes the anyhow error as is *)
anyhow_from_with_package(e) == [engine |-> e, context |-> <<package>>]
anyhow_from(e) == [engine |-> e, context |-> <<>>]

Ok(fs) == [status |-> "Ok", files |-> fs, error |-> NoError]
Err(e) == [status |-> "Err", files |-> <<>>, error |-> e]
Panic == [status |-> "Panic", files |-> <<>>, error |-> NoError]

(* the call ends: the caller receives the outcome *)
Return(outcome) ==
    /\ result' = outcome
    /\ history' = history \cup {<<cache, outcome>>}
    /\ calls' = calls + 1
    /\ pc' = "idle"

Init ==
    /\ cache \in Caches
    /\ other = OtherCache
    /\ templates \in TemplateBuilds
    /\ pc = "idle"
    /\ calls = 0
    /\ package = <<>>
    /\ idx = 1
    /\ class_elements = <<>>
    /\ context = NoContext
    /\ template = {}
    /\ path = <<>>
    /\ files = <<>>
    /\ result = NoResult
    /\ history = {}

(* the caller picks its other cache for the following calls *)
SwapCache ==
    /\ pc = "idle"
    /\ calls < MaxCalls
    /\ cache # other
    /\ cache' = other
    /\ other' = cache
    /\ UNCHANGED <<templates, pc, calls, package, idx, class_elements, context,
                   template, path, files, result, history>>

(* line 27-28: entry, `let package = cache.package()` *)
Call_stale ==
    /\ pc = "idle"
    /\ calls < MaxCalls
    /\ pc' = "map"
    /\ package' = cache.package
    /\ idx' = 1
    /\ context' = NoContext
    /\ template' = {}
    /\ path' = <<>>
    /\ files' = <<>>
    /\ UNCHANGED <<cache, other, templates, calls, result, history, class_elements>>
Call ==
    /\ pc = "idle"
    /\ calls < MaxCalls
    /\ pc' = "map"
    /\ package' = cache.package
    /\ idx' = 1
    /\ class_elements' = <<>>
    /\ context' = NoContext
    /\ template' = {}
    /\ path' = <<>>
    /\ files' = <<>>
    /\ UNCHANGED <<cache, other, templates, calls, result, history>>

(* line 29-30: one step of cache.iter().map(create_class_element).collect() *)
MapItem_prepend ==
    /\ pc = "map"
    /\ idx <= Len(cache.items)
    /\ LET r == create_class_element(package, cache.items[idx])
       IN IF r.ok
          THEN /\ class_elements' = <<r.elem>> \o class_elements
               /\ idx' = idx + 1
               /\ UNCHANGED <<pc, calls, result, history>>
          ELSE /\ Return(Panic)
               /\ UNCHANGED <<idx, class_elements>>
    /\ UNCHANGED <<cache, other, templates, package, context, template, path, files>>
MapItem ==
    /\ pc = "map"
    /\ idx <= Len(cache.items)
    /\ LET r == create_class_element(package, cache.items[idx])
       IN IF r.ok
          THEN /\ class_elements' = Append(class_elements, r.elem)
               /\ idx' = idx + 1
               /\ UNCHANGED <<pc, calls, result, history>>
          ELSE /\ Return(Panic)
               /\ UNCHANGED <<idx, class_elements>>
    /\ UNCHANGED <<cache, other, templates, package, context, template, path, files>>

(* line 31-34: is_read_write and the context *)
BuildContext ==
    /\ pc = "map"
    /\ idx > Len(cache.items)
    /\ context' = [package_name |-> package,
                   is_read_write |-> any_is_read_write(class_elements),
                   class_elements |-> class_elements]
    /\ pc' = "add_template"
    /\ UNCHANGED <<cache, other, templates, calls, package, idx, class_elements,
                   template, path, files, result, history>>

(* line 36-45: the three add_template(..)? calls, in source order *)
template_names == <<Flags_java, FeatureFlagsImpl_java, FeatureFlags_java>>

AddTemplate ==
    /\ pc = "add_template"
    /\ LET name == template_names[Cardinality(template) + 1]
           r == add_template(name)
       IN IF r.ok
          THEN /\ template' = template \cup {name}
               /\ pc' = IF Cardinality(template) + 1 = Len(template_names)
                        THEN "path" ELSE "add_template"
               /\ UNCHANGED <<calls, result, history>>
          ELSE /\ Return(Err(anyhow_from(r.error)))
               /\ UNCHANGED template
    /\ UNCHANGED <<cache, other, templates, package, idx, class_elements, context, path, files>>

(* line 47: let path: PathBuf = package.split('.').collect() *)
SplitPath ==
    /\ pc = "path"
    /\ path' = split(package, Dot)
    /\ pc' = "render"
    /\ UNCHANGED <<cache, other, templates, calls, package, idx, class_elements, context,
                   template, files, result, history>>

(* line 48-56: one step of java_files.iter().map(..).collect::<Result<..>>() *)
RenderFile ==
    /\ pc = "render"
    /\ LET file == java_files[Len(files) + 1]
           r == render(file, context)
           fs == Append(files, [contents |-> contents_of(r.text),
                                path |-> Append(path, file)])
       IN /\ r.ok
          /\ files' = fs
          /\ IF Len(fs) = Len(java_files)
             THEN Return(Ok(fs))
             ELSE UNCHANGED <<pc, calls, result, history>>
    /\ UNCHANGED <<cache, other, templates, package, idx, class_elements, context, template, path>>

(* line 52: render(..)? fails: collect stops and the whole call is Err *)
RenderFail_partial ==
    /\ pc = "render"
    /\ LET file == java_files[Len(files) + 1]
           r == render(file, context)
       IN /\ ~r.ok
          /\ Return(Ok(files))
    /\ UNCHANGED <<cache, other, templates, package, idx, class_elements, context, template,
                   path, files>>
RenderFail ==
    /\ pc = "render"
    /\ LET file == java_files[Len(files) + 1]
           r == render(file, context)
       IN /\ ~r.ok
          /\ Return(Err(anyhow_from(r.error)))
    /\ UNCHANGED <<cache, other, templates, package, idx, class_elements, context, template,
                   path, files>>

Next ==
    \/ SwapCache
    \/ Call
    \/ MapItem
    \/ BuildContext
    \/ AddTemplate
    \/ SplitPath
    \/ RenderFile
    \/ RenderFail

Spec == Init /\ [][Next]_vars

(* ---- properties ---- *)
Built == pc \in {"add_template", "path", "render"}
InCall == pc # "idle"
Last(q) == q[Len(q)]
Front(q) == SubSeq(q, 1, Len(q) - 1)

RECURSIVE JoinWith(_, _)
JoinWith(q, sep) ==
    IF Len(q) = 0 THEN <<>>
    ELSE IF Len(q) = 1 THEN q[1]
    ELSE q[1] \o <<sep>> \o JoinWith(Tail(q), sep)

(* C1: every successful call returns exactly three artifacts, named         *)
(* Flags.java, FeatureFlagsImpl.java and FeatureFlags.java in that order,   *)
(* whatever the flags are.                                                  *)
C1_ThreeFixedNames ==
    \A h \in history :
        h[2].status = "Ok" =>
            /\ Len(h[2].files) = 3
            /\ Last(h[2].files[1].path) = Flags_java
            /\ Last(h[2].files[2].path) = FeatureFlagsImpl_java
            /\ Last(h[2].files[3].path) = FeatureFlags_java

C1_Witness ==
    /\ \E h \in history : h[2].status = "Ok" /\ h[1].items = <<>>
    /\ \E h \in history : h[2].status = "Ok" /\ h[1].items # <<>>

(* C2: the context's is_read_write is true exactly when some flag of the    *)
(* input has permission ReadWrite; false for an empty or all-ReadOnly set.  *)
C2_AnyReadWrite ==
    Built =>
        (context.is_read_write <=>
            \E i \in 1..Len(cache.items) : cache.items[i].permission = "ReadWrite")

C2_Witness ==
    /\ Built
    /\ context.is_read_write
    /\ \E i \in 1..Len(cache.items) : cache.items[i].permission = "ReadOnly"

(* C3: generation is all-or-nothing: a call that fails returns no artifact, *)
(* also when earlier templates were rendered; artifacts are returned only   *)
(* when all three templates loaded and rendered.                            *)
C3_AllOrNothing ==
    \A h \in history :
        /\ h[2].status # "Ok" => h[2].files = <<>>
        /\ h[2].status = "Ok" =>
              /\ Len(h[2].files) = 3
              /\ templates[Flags_java] = "ok"
              /\ templates[FeatureFlagsImpl_java] = "ok"
              /\ templates[FeatureFlags_java] = "ok"

C3_Witness ==
    /\ pc = "idle"
    /\ result.status = "Err"
    /\ result.files = <<>>
    /\ <<cache, result>> \in history
    /\ Len(files) >= 1

(* C4 as stated: every failure reaches the caller as one generation failure *)
(* tagged with the package identifier of the flag set.                      *)
C4_TaggedWithPackage ==
    \A h \in history :
        h[2].status # "Ok" =>
            /\ h[2].status = "Err"
            /\ \E i \in 1..Len(h[2].error.context) : h[2].error.context[i] = h[1].package

(* the engine error the three templates of the build lead to *)
C4_FirstDefect ==
    IF templates[Flags_java] = "parse_error"
    THEN [kind |-> "ParseError", template |-> Flags_java]
    ELSE IF templates[FeatureFlagsImpl_java] = "parse_error"
    THEN [kind |-> "ParseError", template |-> FeatureFlagsImpl_java]
    ELSE IF templates[FeatureFlags_java] = "parse_error"
    THEN [kind |-> "ParseError", template |-> FeatureFlags_java]
    ELSE IF templates[Flags_java] = "render_error"
    THEN [kind |-> "RenderError", template |-> Flags_java]
    ELSE IF templates[FeatureFlagsImpl_java] = "render_error"
    THEN [kind |-> "RenderError", template |-> FeatureFlagsImpl_java]
    ELSE [kind |-> "RenderError", template |-> FeatureFlags_java]

(* C4 amended: a template that fails to load or render makes the call       *)
(* return one error, the engine's error for the first failing template,     *)
(* passed on as it is, with no package identifier attached.                 *)
C4_EngineErrorUntagged ==
    \A h \in history :
        /\ h[2].status = "Err" =>
              /\ h[2].error.engine = C4_FirstDefect
              /\ h[2].error.context = <<>>
        /\ (\E f \in DOMAIN templates : templates[f] # "ok") => h[2].status = "Err"

C4_Witness ==
    \E h \in history :
        /\ h[2].status = "Err"
        /\ h[2].error.engine.kind = "RenderError"
        /\ h[1].items # <<>>

(* C5: every element's device_config_flag is package ++ "." ++ name of its  *)
(* flag, with the package of the flag set being generated.                  *)
C5_QualifiedId ==
    InCall =>
        \A i \in 1..Len(class_elements) :
            /\ i <= Len(cache.items)
            /\ class_elements[i].device_config_flag
                  = cache.package \o <<46>> \o cache.items[i].name

C5_Witness ==
    /\ InCall
    /\ Len(class_elements) >= 1
    /\ class_elements[1].device_config_flag
          = <<99, 111, 109, 46, 101, 120, 46, 100, 95, 114, 49>>

(* C6: every element's default_value is "true" exactly when the flag is     *)
(* Enabled and "false" otherwise; nothing else is produced.                 *)
C6_DefaultValue ==
    InCall =>
        \A i \in 1..Len(class_elements) :
            /\ i <= Len(cache.items)
            /\ class_elements[i].default_value \in {<<116, 114, 117, 101>>, <<102, 97, 108, 115, 101>>}
            /\ class_elements[i].default_value = <<116, 114, 117, 101>>
                  <=> cache.items[i].state = "Enabled"

C6_Witness ==
    /\ InCall
    /\ \E i \in 1..Len(class_elements) :
          cache.items[i].state = "Enabled" /\ class_elements[i].default_value = TrueText
    /\ \E i \in 1..Len(class_elements) :
          cache.items[i].state = "Disabled" /\ class_elements[i].default_value = FalseText

(* C7: every element's flag_name_constant_suffix is the flag name with a-z  *)
(* mapped to A-Z and every other character left as it is.                   *)
C7_ConstantSuffix ==
    InCall =>
        \A i \in 1..Len(class_elements) :
            /\ i <= Len(cache.items)
            /\ LET name == cache.items[i].name
                   suffix == class_elements[i].flag_name_constant_suffix
               IN /\ Len(suffix) = Len(name)
                  /\ \A k \in 1..Len(name) :
                        IF name[k] \in 97..122
                        THEN suffix[k] = name[k] - 32
                        ELSE suffix[k] = name[k]

C7_Witness ==
    /\ InCall
    /\ \E i \in 1..Len(class_elements) :
          class_elements[i].flag_name_constant_suffix = <<68, 95, 82, 49>>
    /\ \E i \in 1..Len(class_elements) :
          class_elements[i].flag_name_constant_suffix = <<69, 233, 90>>

(* C8: the context holds one element per flag record, the i-th element made *)
(* from the i-th record: nothing is re-sorted, dropped or duplicated.       *)
C8_ElementOrder ==
    Built =>
        /\ Len(context.class_elements) = Len(cache.items)
        /\ \A i \in 1..Len(context.class_elements) :
              /\ i <= Len(cache.items)
              /\ context.class_elements[i].method_name = cache.items[i].name
              /\ context.class_elements[i].device_config_namespace = cache.items[i].namespace
              /\ context.class_elements[i].is_read_write
                    = (cache.items[i].permission = "ReadWrite")
              /\ (context.class_elements[i].default_value = TrueText)
                    = (cache.items[i].state = "Enabled")

C8_Witness ==
    /\ Built
    /\ Len(context.class_elements) >= 2
    /\ context.class_elements[1].method_name = <<101, 233, 90>>
    /\ context.class_elements[2].method_name = <<100, 95, 114, 49>>
    /\ context.class_elements[1].is_read_write
    /\ ~context.class_elements[2].is_read_write

(* C9: every returned artifact's path is the package split on "." into      *)
(* directories followed by the artifact's file name; the three artifacts    *)
(* share the directory.                                                     *)
C9_PackagePath ==
    \A h \in history :
        h[2].status = "Ok" =>
            \A i \in 1..Len(h[2].files) :
                LET p == h[2].files[i].path
                IN /\ Len(p) >= 2
                   /\ JoinWith(Front(p), 46) = h[1].package
                   /\ \A k \in 1..(Len(p) - 1) : \A j \in 1..Len(p[k]) : p[k][j] # 46
                   /\ Front(p) = Front(h[2].files[1].path)
                   /\ Last(p) \in {Flags_java, FeatureFlagsImpl_java, FeatureFlags_java}

C9_Witness ==
    \E h \in history :
        /\ h[2].status = "Ok"
        /\ h[2].files[1].path = <<<<99, 111, 109>>, <<101, 120>>, Flags_java>>
        /\ h[2].files[3].path = <<<<99, 111, 109>>, <<101, 120>>, FeatureFlags_java>>

(* C10: no state is kept between calls: every call on the same flag set     *)
(* returns the same outcome, on success the same three artifacts with the   *)
(* same paths and the same bytes.                                           *)
C10_Deterministic ==
    \A h1 \in history : \A h2 \in history :
        h1[1] = h2[1] => h1[2] = h2[2]

C10_Witness ==
    /\ calls >= 2
    /\ Cardinality(history) = 1
    /\ \E h \in history : h[2].status = "Ok" /\ Len(h[1].items) >= 2

====
